---- MODULE Spec2Model ----
(***************************************************************************)
(* magnet (src/src/main.rs): a GitHub repository scraper.  main spawns one *)
(* task per filtered repository; each task takes a semaphore permit, runs  *)
(* Scraper::download_repo (branch fallback over download_and_extract,      *)
(* which wraps its request in Scraper::retry_request) and reports to the   *)
(* ProgressTracker.  main joins the tasks in order and reads the stats.    *)
(***************************************************************************)
EXTENDS Integers, Sequences, FiniteSets, TLC

\* ------------------------------------------------------------------------
\* Bounds of the model
\* ------------------------------------------------------------------------
\* most repositories dispatched in one run
MaxRepos == 2
\* largest --parallel value tried
MaxParallel == 2
\* largest byte size of an extracted tree
MaxSize == 1
\* most runs of the program over one filesystem
MaxRuns == 2
\* records on one page of the listing
PageSize == 2
\* most records given to filter_repos
MaxRecords == 2
\* most entries of an archive
MaxEntries == 2
\* most concurrent get_stats calls
MaxReaders == 2

\* ------------------------------------------------------------------------
\* Program constants
\* ------------------------------------------------------------------------
MAX_RETRIES == 3
RETRY_DELAY_MS == 1000

VARIABLES
    rq,             \* one retry_request call: its locals and its return value
    repos,          \* filtered_repos: the records dispatched, in order
    parallel_count, \* --parallel
    fs,             \* the filesystem below the user directory: path -> entry
    mainpc,         \* main's position
    spawned,        \* number of tasks main has spawned
    joined,         \* number of tasks main has awaited
    stats,          \* what get_stats returned to main
    pc,             \* each task's position
    permits,        \* free permits of the semaphore
    bi,             \* download_repo: position in the branch order
    firstErr,       \* download_repo: e, the default branch's error
    seen,           \* the destination's entry when download_repo was called
    tried,          \* history: each download_and_extract call and how it ended
    gaveUp,         \* history: the error of the call download_repo gave up on
    result,         \* what download_repo returned
    completed,      \* ProgressTracker.completed
    downloaded,     \* ProgressTracker.downloaded
    failed,         \* ProgressTracker.failed
    total_size,     \* ProgressTracker.total_size
    locks,          \* holder of each ProgressTracker mutex (0: free)
    run,            \* how many times the program has been started
    prev,           \* seen and result of the run before
    lst,            \* fetch_all_repos: its locals, its position, its history
    flt,            \* one filter_repos call: arguments and return value
    zx,             \* one extract_zip call: entries read, paths created
    readers         \* get_stats calls in progress: guards held, value read

retryVars == <<rq>>
partVars == <<lst, flt, zx, readers>>
dispVars == <<repos, parallel_count, fs, mainpc, spawned, joined, stats, pc,
              permits, bi, firstErr, seen, tried, gaveUp, result,
              completed, downloaded, failed, total_size, locks, run, prev>>
runVars == <<dispVars, partVars>>
vars == <<rq, repos, parallel_count, fs, mainpc, spawned, joined, stats, pc,
          permits, bi, firstErr, seen, tried, gaveUp, result,
          completed, downloaded, failed, total_size, locks, run, prev,
          lst, flt, zx, readers>>

\* ------------------------------------------------------------------------
\* Scraper::retry_request
\* ------------------------------------------------------------------------
\* what one request_fn().await can yield: a reqwest::Error or a status
TransportErrors == {"connect", "timeout"}
Statuses == {"success", "not_found", "forbidden", "too_many", "other"}
Outcomes == TransportErrors \cup Statuses

is_success(status) == status = "success"

RECURSIVE pow2(_)
pow2(n) == IF n = 0 THEN 1 ELSE 2 * pow2(n - 1)

\* mutant: the delay is not doubled
backoff_constant(attempt) == RETRY_DELAY_MS

\* Duration::from_millis(RETRY_DELAY_MS * 2_u64.pow(attempt))
backoff(attempt) == RETRY_DELAY_MS * pow2(attempt)

Running == [kind |-> "running", val |-> "none"]

\* let mut last_error = None; attempt = 0
retry_start ==
    [attempt |-> 0, last_error |-> "none", waits |-> <<>>, log |-> <<>>,
     ret |-> Running]

\* the transport-error arm sleeps only when another attempt follows
sleeps_after_error(attempt) == attempt < MAX_RETRIES - 1

\* the statuses that are waited on and retried
retryable(status) == status \in {"forbidden", "too_many"}

\* one iteration of `for attempt in 0..MAX_RETRIES` whose request yields out
retry_iter(r, out) ==
    LET logged == [r EXCEPT !.log = Append(@, out)] IN
    IF out \in Statuses
    THEN IF is_success(out) \/ out = "not_found"
         THEN [logged EXCEPT !.ret = [kind |-> "ok", val |-> out]]
         ELSE IF retryable(out)
         THEN [logged EXCEPT !.waits = Append(@, backoff(r.attempt)),
                           !.attempt = @ + 1]
         ELSE [logged EXCEPT !.ret = [kind |-> "ok", val |-> out]]
    ELSE [logged EXCEPT !.last_error = out,
                      !.waits = IF sleeps_after_error(r.attempt)
                                THEN Append(@, backoff(r.attempt)) ELSE @,
                      !.attempt = @ + 1]

\* Err(last_error.unwrap().to_string()): unwrap panics on None
retry_exhausted(r) ==
    IF r.last_error = "none"
    THEN [r EXCEPT !.ret = [kind |-> "panic", val |-> "none"]]
    ELSE [r EXCEPT !.ret = [kind |-> "err", val |-> r.last_error]]

\* the whole call, given the outcome of each attempt it may make
RECURSIVE retry_loop(_, _)
retry_loop(r, outs) ==
    IF r.ret.kind # "running" THEN r
    ELSE IF r.attempt >= MAX_RETRIES THEN retry_exhausted(r)
    ELSE retry_loop(retry_iter(r, outs[r.attempt + 1]), outs)

retry_request(outs) == retry_loop(retry_start, outs).ret

\* every return value of retry_request when each attempt yields one of outs
RetryReturns(outcomes) ==
    {retry_request(outs) : outs \in [1..MAX_RETRIES -> outcomes]}

\* --- one call, attempt by attempt ---------------------------------------
RetryInit == rq = retry_start

RetryAttempt ==
    /\ rq.ret.kind = "running"
    /\ rq.attempt < MAX_RETRIES
    /\ \E out \in Outcomes : rq' = retry_iter(rq, out)

RetryExhausted ==
    /\ rq.ret.kind = "running"
    /\ rq.attempt >= MAX_RETRIES
    /\ rq' = retry_exhausted(rq)

\* ------------------------------------------------------------------------
\* Records, paths and the filesystem
\* ------------------------------------------------------------------------
\* A name or path is the sequence of its pieces: <<"a", ".zip">> is "a.zip".
\* (RepoInfo.name, and Path::new(username).join(&repo.name) below username)
Names == << <<"a">>, <<"a", ".zip">>, <<"b">> >>

fallback_branches == <<"main", "master", "develop", "trunk">>

DefaultBranches == {"feature-x", "main", "master", "develop", "trunk"}

\* RepoInfo, the fields download_repo reads
RepoInfo(name, branch) == [name |-> name, default_branch |-> branch]

\* a user's catalog: names are unique within it
Catalog == <<RepoInfo(Names[1], "feature-x"), RepoInfo(Names[2], "master"),
             RepoInfo(Names[3], "main")>>

\* let repo_path = Path::new(username).join(&repo.name)
repo_path_of(repo) == repo.name

\* let zip_file = format!("{}.zip", repo_path.to_string_lossy())
zip_file_of(repo_path) == repo_path \o <<".zip">>

Absent == [kind |-> "absent", size |-> 0, by |-> 0]
File(u) == [kind |-> "file", size |-> 0, by |-> u]
Dir(n, u) == [kind |-> "dir", size |-> n, by |-> u]

Sizes == 0..MaxSize

PathsOf(rs) ==
    {repo_path_of(rs[i]) : i \in DOMAIN rs}
        \cup {zip_file_of(repo_path_of(rs[i])) : i \in DOMAIN rs}

\* repo_path.exists()
exists(f, p) == f[p].kind # "absent"

\* get_dir_size: read_dir fails on anything that is not a directory
get_dir_size(f, p) ==
    IF f[p].kind = "dir" THEN [ok |-> TRUE, size |-> f[p].size]
    ELSE [ok |-> FALSE, size |-> 0]

\* Result<u64, String>
Ok(size) == [kind |-> "ok", size |-> size, reason |-> ""]
Err(e) == [kind |-> "err", size |-> 0, reason |-> e]
NoResult == [kind |-> "none", size |-> 0, reason |-> ""]

\* ------------------------------------------------------------------------
\* Scraper::download_and_extract and extract_zip
\* ------------------------------------------------------------------------
\* format!("HTTP {}", response.status())
http_reason(status) ==
    CASE status = "not_found" -> "HTTP not_found"
      [] status = "forbidden" -> "HTTP forbidden"
      [] status = "too_many" -> "HTTP too_many"
      [] OTHER -> "HTTP other"

\* The part of download_and_extract before the archive is written: the
\* request through retry_request, the status check and response.bytes().
\* "" stands for: the bytes are in memory.
download_request(ret, body_ok) ==
    IF ret.kind = "panic" THEN "panic"
    ELSE IF ret.kind = "err" THEN ret.val
    ELSE IF ~is_success(ret.val) THEN http_reason(ret.val)
    ELSE IF ~body_ok THEN "body"
    ELSE ""

\* fs::write(&zip_file, &bytes): creates or truncates; fails on a directory
can_write(f, zip_file) == f[zip_file].kind # "dir"

\* what an archive can hold: nothing readable, no entry below its top
\* directory, a tree of some size, or a tree that fails part-way
Archives ==
    {[kind |-> k, size |-> 0] : k \in {"bad", "empty"}}
        \cup {[kind |-> k, size |-> n] : k \in {"tree", "partial"}, n \in Sizes}

\* What the remote side does in a run: the return values of retry_request
\* it can cause, whether a body can fail to arrive, the archives it serves.
\* every request outcome, body and archive
FullRemote ==
    [returns |-> RetryReturns(Outcomes), bodies |-> BOOLEAN,
     archives |-> Archives]

\* a remote that answers every request with a status and serves well-formed
\* archives
StatusRemote ==
    [returns |-> RetryReturns({"success", "not_found", "forbidden"}),
     bodies |-> {TRUE},
     archives |-> {a \in Archives : a.kind \in {"tree", "empty"}}]

\* extract_zip(zip_path, repo_path) run by task u
extract_zip(f, archive, zip_path, repo_path, u) ==
    IF f[zip_path].kind # "file" \/ archive.kind = "bad"
    THEN [ok |-> FALSE, fs |-> f]
    ELSE IF archive.kind = "empty"
    THEN [ok |-> TRUE, fs |-> f]
    ELSE IF f[repo_path].kind = "file"
    THEN [ok |-> FALSE, fs |-> f]
    ELSE [ok |-> archive.kind = "tree",
          fs |-> [f EXCEPT ![repo_path] = Dir(archive.size, u)]]

\* fs::remove_file(&zip_file).ok()
remove_file(f, zip_file) ==
    IF f[zip_file].kind = "file" THEN [f EXCEPT ![zip_file] = Absent] ELSE f

\* get_dir_size(repo_path).unwrap_or(0)
size_or_zero(f, repo_path) ==
    LET r == get_dir_size(f, repo_path) IN IF r.ok THEN r.size ELSE 0

\* ------------------------------------------------------------------------
\* Scraper::download_repo
\* ------------------------------------------------------------------------
\* position 0 is the default branch, position k the k-th fallback
branch_at(repo, k) ==
    IF k = 0 THEN repo.default_branch ELSE fallback_branches[k]

\* mutant: the fallback loop without its `continue`
next_fallback_noskip(branch, k) == k + 1

\* the fallback loop: `if *fallback == branch { continue; }`
RECURSIVE next_fallback(_, _)
next_fallback(branch, k) ==
    IF k + 1 > Len(fallback_branches) THEN k + 1
    ELSE IF fallback_branches[k + 1] = branch THEN next_fallback(branch, k + 1)
    ELSE k + 1

\* mutant: the existence test negated
shortcut_negated(f, repo_path) ==
    ~exists(f, repo_path) /\ get_dir_size(f, repo_path).ok

\* the `if repo_path.exists() { if let Ok(size) = get_dir_size(..) {..} }`
shortcut(f, repo_path) == exists(f, repo_path) /\ get_dir_size(f, repo_path).ok

\* mutant: the error of the last call is reported
download_error_last(e, last) == last

\* Err(format!("Failed to download: {}", e)): e is the default branch's error
download_error(e, last) == e

Units == 1..Len(repos)

cfgVars == <<repos, parallel_count, run, prev, partVars>>
mainVars == <<mainpc, spawned, joined, stats>>
trackerVars == <<completed, downloaded, failed, total_size, locks>>

\* the process is alive: main has neither returned nor failed
Alive == mainpc = "run"

log_attempt(t, branch, res) == Append(t, [branch |-> branch, res |-> res])
resolve(t, res) == [t EXCEPT ![Len(t)].res = res]

\* download_and_extract returned Err(reason) at position bi[u]; t is the
\* task's history with that call in it
BranchFailed(u, reason, t) ==
    LET branch == repos[u].default_branch
        e == IF bi[u] = 0 THEN reason ELSE firstErr[u]
        k == next_fallback(branch, bi[u])
    IN  /\ tried' = [tried EXCEPT ![u] = t]
        /\ firstErr' = [firstErr EXCEPT ![u] = e]
        /\ IF k <= Len(fallback_branches)
           THEN /\ bi' = [bi EXCEPT ![u] = k]
                /\ pc' = [pc EXCEPT ![u] = "fetch"]
                /\ UNCHANGED <<result, gaveUp>>
           ELSE /\ result' = [result EXCEPT ![u] = Err(download_error(e, reason))]
                /\ gaveUp' = [gaveUp EXCEPT ![u] = reason]
                /\ pc' = [pc EXCEPT ![u] = "report"]
                /\ UNCHANGED bi

\* mutant: a permit is handed out whether or not one is free
can_acquire_any(p) == TRUE

\* let _permit = semaphore.acquire().await.unwrap();
can_acquire(p) == p > 0

Acquire(u) ==
    /\ Alive /\ pc[u] = "acquire"
    /\ can_acquire(permits)
    /\ permits' = permits - 1
    /\ pc' = [pc EXCEPT ![u] = "download"]
    /\ UNCHANGED <<rq, cfgVars, mainVars, trackerVars, fs, bi, firstErr, seen,
                   tried, gaveUp, result>>

\* download_repo up to its first download_and_extract
DownloadRepo(u) ==
    /\ Alive /\ pc[u] = "download"
    /\ LET repo_path == repo_path_of(repos[u]) IN
       /\ seen' = [seen EXCEPT ![u] = fs[repo_path]]
       /\ IF shortcut(fs, repo_path)
          THEN /\ result' = [result EXCEPT
                     ![u] = Ok(get_dir_size(fs, repo_path).size)]
               /\ pc' = [pc EXCEPT ![u] = "report"]
          ELSE /\ pc' = [pc EXCEPT ![u] = "fetch"]
               /\ UNCHANGED result
    /\ UNCHANGED <<rq, cfgVars, mainVars, trackerVars, fs, permits, bi,
                   firstErr, tried, gaveUp>>

\* download_and_extract up to fs::write: a panic inside retry_request
\* unwinds the task, which drops its permit
Fetch(u, remote) ==
    /\ Alive /\ pc[u] = "fetch"
    /\ \E ret \in remote.returns, body_ok \in remote.bodies :
         LET zip_file == zip_file_of(repo_path_of(repos[u]))
             branch == branch_at(repos[u], bi[u])
             got == download_request(ret, body_ok)
         IN  IF got = "panic"
             THEN /\ pc' = [pc EXCEPT ![u] = "panicked"]
                  /\ permits' = permits + 1
                  /\ tried' = [tried EXCEPT
                        ![u] = log_attempt(@, branch, "panic")]
                  /\ UNCHANGED <<fs, bi, firstErr, result, gaveUp>>
             ELSE IF got # ""
             THEN /\ BranchFailed(u, got,
                                  log_attempt(tried[u], branch, "failed"))
                  /\ UNCHANGED <<fs, permits>>
             ELSE IF ~can_write(fs, zip_file)
             THEN /\ BranchFailed(u, "write",
                                  log_attempt(tried[u], branch, "failed"))
                  /\ UNCHANGED <<fs, permits>>
             ELSE /\ fs' = [fs EXCEPT ![zip_file] = File(u)]
                  /\ tried' = [tried EXCEPT
                        ![u] = log_attempt(@, branch, "pending")]
                  /\ pc' = [pc EXCEPT ![u] = "extract"]
                  /\ UNCHANGED <<permits, bi, firstErr, result, gaveUp>>
    /\ UNCHANGED <<rq, cfgVars, mainVars, trackerVars, seen>>

\* the rest of download_and_extract: extract_zip, remove_file, the size
Extract(u, remote) ==
    /\ Alive /\ pc[u] = "extract"
    /\ \E archive \in remote.archives :
         LET repo_path == repo_path_of(repos[u])
             zip_file == zip_file_of(repo_path)
             x == extract_zip(fs, archive, zip_file, repo_path, u)
             after == remove_file(x.fs, zip_file)
         IN  /\ fs' = after
             /\ IF x.ok
                THEN /\ result' = [result EXCEPT
                           ![u] = Ok(size_or_zero(after, repo_path))]
                     /\ tried' = [tried EXCEPT ![u] = resolve(@, "ok")]
                     /\ pc' = [pc EXCEPT ![u] = "report"]
                     /\ UNCHANGED <<bi, firstErr, gaveUp>>
                ELSE BranchFailed(u, "extract", resolve(tried[u], "failed"))
    /\ UNCHANGED <<rq, cfgVars, mainVars, trackerVars, permits, seen>>

\* ------------------------------------------------------------------------
\* ProgressTracker
\* ------------------------------------------------------------------------
NoLocks == [completed |-> 0, downloaded |-> 0, failed |-> 0, total_size |-> 0]

\* mutant: the guard is a temporary, dropped after the increment
lock_completed_dropped(l, u) == l

\* `let mut completed = self.completed.lock().await;` the guard lives until
\* report_completion returns
lock_completed(l, u) == [l EXCEPT !.completed = u]

\* the guards dropped when report_completion returns
unlock_all(l, u) ==
    [m \in DOMAIN l |-> IF l[m] = u THEN 0 ELSE l[m]]

\* mutant: the size is assigned, not added
add_size_assigned(total, size) == size

\* *total_size += size
add_size(total, size) == total + size

\* report_completion: lock completed, *completed += 1
ReportCompleted(u) ==
    /\ Alive /\ pc[u] = "report"
    /\ locks.completed = 0
    /\ locks' = lock_completed(locks, u)
    /\ completed' = completed + 1
    /\ pc' = [pc EXCEPT ![u] = "report_result"]
    /\ UNCHANGED <<rq, cfgVars, mainVars, fs, permits, bi, firstErr, seen,
                   tried, gaveUp, result, downloaded, failed, total_size>>

\* Ok(size): lock downloaded
ReportLockDownloaded(u) ==
    /\ Alive /\ pc[u] = "report_result"
    /\ result[u].kind = "ok"
    /\ locks.downloaded = 0
    /\ locks' = [locks EXCEPT !.downloaded = u]
    /\ pc' = [pc EXCEPT ![u] = "report_size"]
    /\ UNCHANGED <<rq, cfgVars, mainVars, fs, permits, bi, firstErr, seen,
                   tried, gaveUp, result, completed, downloaded, failed, total_size>>

\* Ok(size): lock total_size, *downloaded += 1, *total_size += size; the
\* call returns and the task ends, dropping its permit
ReportSuccess(u) ==
    /\ Alive /\ pc[u] = "report_size"
    /\ locks.total_size = 0
    /\ downloaded' = downloaded + 1
    /\ total_size' = add_size(total_size, result[u].size)
    /\ locks' = unlock_all(locks, u)
    /\ permits' = permits + 1
    /\ pc' = [pc EXCEPT ![u] = "done"]
    /\ UNCHANGED <<rq, cfgVars, mainVars, fs, bi, firstErr, seen, tried,
                   gaveUp, result, completed, failed>>

\* Err(e): lock failed, *failed += 1; the call returns and the task ends
ReportFailure(u) ==
    /\ Alive /\ pc[u] = "report_result"
    /\ result[u].kind = "err"
    /\ locks.failed = 0
    /\ failed' = failed + 1
    /\ locks' = unlock_all(locks, u)
    /\ permits' = permits + 1
    /\ pc' = [pc EXCEPT ![u] = "done"]
    /\ UNCHANGED <<rq, cfgVars, mainVars, fs, bi, firstErr, seen, tried,
                   gaveUp, result, completed, downloaded, total_size>>

\* get_stats: the three guards are taken in turn and read
get_stats(d, f, t) == [downloaded |-> d, failed |-> f, total_size |-> t]

\* ------------------------------------------------------------------------
\* main
\* ------------------------------------------------------------------------
NoStats == [downloaded |-> 0, failed |-> 0, total_size |-> 0]

\* `for repo in filtered_repos { tokio::spawn(..) }`
Spawn ==
    /\ Alive /\ spawned < Len(repos)
    /\ spawned' = spawned + 1
    /\ pc' = [pc EXCEPT ![spawned + 1] = "acquire"]
    /\ UNCHANGED <<rq, cfgVars, mainpc, joined, stats, trackerVars, fs,
                   permits, bi, firstErr, seen, tried, gaveUp,
                   result>>

\* `task.await?` on a task that ran to its end
JoinOk ==
    /\ Alive /\ spawned = Len(repos) /\ joined < Len(repos)
    /\ pc[joined + 1] = "done"
    /\ joined' = joined + 1
    /\ UNCHANGED <<rq, cfgVars, mainpc, spawned, stats, trackerVars, fs, pc,
                   permits, bi, firstErr, seen, tried, gaveUp,
                   result>>

\* `task.await?` on a task that panicked: the JoinError leaves main
JoinErr ==
    /\ Alive /\ spawned = Len(repos) /\ joined < Len(repos)
    /\ pc[joined + 1] = "panicked"
    /\ mainpc' = "error"
    /\ UNCHANGED <<rq, cfgVars, spawned, joined, stats, trackerVars, fs, pc,
                   permits, bi, firstErr, seen, tried, gaveUp,
                   result>>

\* let stats = progress.get_stats().await; the results are printed
GetStats ==
    /\ Alive /\ spawned = Len(repos) /\ joined = Len(repos)
    /\ locks.downloaded = 0 /\ locks.failed = 0 /\ locks.total_size = 0
    /\ stats' = get_stats(downloaded, failed, total_size)
    /\ mainpc' = "done"
    /\ UNCHANGED <<rq, cfgVars, spawned, joined, trackerVars, fs, pc,
                   permits, bi, firstErr, seen, tried, gaveUp,
                   result>>

\* ------------------------------------------------------------------------
\* Scraper::fetch_all_repos and Scraper::check_rate_limit
\* ------------------------------------------------------------------------
taskVars == <<pc, permits, bi, firstErr, seen, tried, gaveUp, result>>

NoCall == [to |-> "none", log |-> <<>>, body |-> "unread"]

\* no fetch_all_repos call in this process
NoListing ==
    [pc |-> "idle", token |-> FALSE, remote |-> 0, page |-> 0, repos |-> <<>>,
     err |-> "", requested |-> <<>>, received |-> <<>>, call |-> NoCall]

\* let mut repos = Vec::new(); let mut page = 1; the account has n
\* repositories
fetch_start(token, n) ==
    [NoListing EXCEPT !.pc = "page", !.token = token, !.remote = n, !.page = 1]

\* what response.json() makes of a body
Bodies == {"json", "garbled"}

\* the records GitHub returns for `?per_page=..&page=p` of an account with
\* n repositories
page_of(n, p) ==
    LET first == (p - 1) * PageSize + 1
        last == IF p * PageSize < n THEN p * PageSize ELSE n
    IN  IF first > last THEN <<>> ELSE SubSeq(Catalog, first, last)

\* one iteration of the loop of fetch_all_repos; main's `?` on an Err; a
\* panic of retry_request unwinds fetch_all_repos and main
FetchPage ==
    /\ mainpc = "listing" /\ lst.pc = "page"
    /\ \E outs \in [1..MAX_RETRIES -> Outcomes], body \in Bodies :
         LET r == retry_loop(retry_start, outs)
             accepted == r.ret.kind = "ok" /\ is_success(r.ret.val)
             data == page_of(lst.remote, lst.page)
             asked == [lst EXCEPT
                          !.requested = Append(@, lst.page),
                          !.call = [to |-> "list", log |-> r.log,
                                    body |-> IF accepted THEN body
                                             ELSE "unread"]]
         IN  IF r.ret.kind = "panic"
             THEN /\ lst' = [asked EXCEPT !.pc = "panic"]
                  /\ mainpc' = "panicked"
             ELSE IF r.ret.kind = "err"
             THEN /\ lst' = [asked EXCEPT !.pc = "error", !.err = r.ret.val]
                  /\ mainpc' = "error"
             ELSE IF ~is_success(r.ret.val)
             THEN /\ lst' = [asked EXCEPT !.pc = "error", !.err = "api"]
                  /\ mainpc' = "error"
             ELSE IF body = "garbled"
             THEN /\ lst' = [asked EXCEPT !.pc = "error", !.err = "decode"]
                  /\ mainpc' = "error"
             ELSE IF data = <<>>
             THEN /\ lst' = [asked EXCEPT
                                !.received = Append(@, data),
                                !.pc = IF lst.token THEN "return" ELSE "quota"]
                  /\ UNCHANGED mainpc
             ELSE /\ lst' = [asked EXCEPT
                                !.received = Append(@, data),
                                !.repos = @ \o data,
                                !.page = @ + 1]
                  /\ UNCHANGED mainpc
    /\ UNCHANGED <<rq, repos, parallel_count, run, prev, flt, zx, readers, fs,
                   spawned, joined, stats, taskVars, trackerVars>>

\* `self.check_rate_limit().await.ok()`: one self.client.get(&url).send(),
\* whatever it yields is dropped
CheckRateLimit ==
    /\ mainpc = "listing" /\ lst.pc = "quota"
    /\ \E out \in Outcomes, body \in Bodies :
         lst' = [lst EXCEPT
                    !.call = [to |-> "quota", log |-> <<out>>,
                              body |-> IF out \in Statuses /\ is_success(out)
                                       THEN body ELSE "unread"],
                    !.pc = "return"]
    /\ UNCHANGED <<rq, repos, parallel_count, run, prev, flt, zx, readers, fs,
                   mainVars, taskVars, trackerVars>>

\* main from the return of fetch_all_repos to the creation of the tracker
\* and the semaphore, run without filter options: every record is kept
Listed ==
    /\ mainpc = "listing" /\ lst.pc = "return"
    /\ lst' = [lst EXCEPT !.pc = "ok"]
    /\ IF lst.repos = <<>>
       THEN /\ mainpc' = "done"
            /\ UNCHANGED <<repos, fs, spawned, joined, stats, taskVars,
                           trackerVars>>
       ELSE /\ repos' = lst.repos
            /\ fs' = [p \in PathsOf(lst.repos) |-> Absent]
            /\ permits' = parallel_count
            /\ mainpc' = "run"
            /\ pc' = [u \in DOMAIN lst.repos |-> "unspawned"]
            /\ bi' = [u \in DOMAIN lst.repos |-> 0]
            /\ firstErr' = [u \in DOMAIN lst.repos |-> ""]
            /\ seen' = [u \in DOMAIN lst.repos |-> Absent]
            /\ tried' = [u \in DOMAIN lst.repos |-> <<>>]
            /\ gaveUp' = [u \in DOMAIN lst.repos |-> ""]
            /\ result' = [u \in DOMAIN lst.repos |-> NoResult]
            /\ UNCHANGED <<spawned, joined, stats, trackerVars>>
    /\ UNCHANGED <<rq, parallel_count, run, prev, flt, zx, readers>>

\* ------------------------------------------------------------------------
\* filter_repos
\* ------------------------------------------------------------------------
\* An Option is a sequence of at most one element: None is <<>>, Some(x) is
\* <<x>>.  A name is the sequence of its characters.
Record(name, language, stars, size, is_fork) ==
    [name |-> name, language |-> language, stars |-> stars, size |-> size,
     is_fork |-> is_fork]

\* 2^32 / 1024: the least u32 m whose product m * 1024 leaves the u32 range
U32Quot == pow2(22)

\* `*max_size_mb * 1024` on u32.  The product is kept as its count of 1024s
\* (the wrapped value is kib * 1024), so that no number of the model leaves
\* the range of TLC's integers; overflow tells that the exact
\* product is 2^32 or more.
mul_1024(max_size_mb) ==
    [overflow |-> max_size_mb >= U32Quot, kib |-> max_size_mb % U32Quot]

\* the profiles the program is built with: overflow checks on or off
Builds == {"debug", "release"}

\* size > kib * 1024
gt_kib(size, kib) ==
    \/ size \div 1024 > kib
    \/ size \div 1024 = kib /\ size % 1024 > 0

\* str::to_lowercase on the language names of the model
to_lowercase(s) ==
    CASE s = "Rust" -> "rust"
      [] s = "RUST" -> "rust"
      [] s = "Go" -> "go"
      [] OTHER -> s

\* Regex::is_match for a pattern of literal characters: the pattern occurs
\* somewhere in the name
is_match(regex, name) ==
    \E i \in 1..(Len(name) - Len(regex) + 1) :
        SubSeq(name, i, i + Len(regex) - 1) = regex

\* the closure given to filter: "keep" (true), "drop" (false), or "panic"
\* (the multiplication overflows in a build with overflow checks)
keeps(repo, c, build) ==
    IF c.only_original /\ repo.is_fork THEN "drop"
    ELSE IF repo.stars < c.min_stars THEN "drop"
    ELSE IF c.max_size # <<>> /\ mul_1024(c.max_size[1]).overflow
                              /\ build = "debug" THEN "panic"
    ELSE IF c.max_size # <<>>
            /\ gt_kib(repo.size, mul_1024(c.max_size[1]).kib) THEN "drop"
    ELSE IF c.language # <<>>
            /\ (repo.language = <<>>
                \/ to_lowercase(repo.language[1]) # to_lowercase(c.language[1]))
         THEN "drop"
    ELSE IF c.regex # <<>> /\ ~is_match(c.regex[1], repo.name) THEN "drop"
    ELSE "keep"

\* repos.into_iter().filter(..).collect()
RECURSIVE filter_from(_, _, _, _, _)
filter_from(rs, c, build, i, kept) ==
    IF i > Len(rs) THEN [kind |-> "ok", repos |-> kept]
    ELSE LET k == keeps(rs[i], c, build) IN
         IF k = "panic" THEN [kind |-> "panic", repos |-> <<>>]
         ELSE filter_from(rs, c, build, i + 1,
                          IF k = "keep" THEN Append(kept, rs[i]) ELSE kept)

filter_repos(rs, c, build) == filter_from(rs, c, build, 1, <<>>)

FilterNames == {<<"a">>, <<"a", "b">>}
FilterRecords ==
    {Record(n, l, s, z, f) :
        n \in FilterNames, l \in {<<>>, <<"Rust">>, <<"Go">>}, s \in {0, 1},
        z \in {1024, 1025}, f \in BOOLEAN}

\* --min-stars, --max-size (any u32), --language, --only-original, --regex
Criteria ==
    [only_original : BOOLEAN, min_stars : {0, 1},
     max_size : {<<>>, <<1>>, <<U32Quot>>},
     language : {<<>>, <<"RUST">>}, regex : {<<>>, <<(<<"b">>)>>}]

NoCriteria ==
    [only_original |-> FALSE, min_stars |-> 0, max_size |-> <<>>,
     language |-> <<>>, regex |-> <<>>]

NotCalled == [kind |-> "none", repos |-> <<>>]

\* no filter_repos call under study
NoFilter ==
    [repos |-> <<>>, criteria |-> NoCriteria, build |-> "release",
     out |-> NotCalled]

RecordLists ==
    UNION {[1..n -> FilterRecords] : n \in 0..MaxRecords}

FilterRepos ==
    /\ flt.out = NotCalled
    /\ flt' = [flt EXCEPT
                  !.out = filter_repos(flt.repos, flt.criteria, flt.build)]
    /\ UNCHANGED <<rq, dispVars, lst, zx, readers>>

\* ------------------------------------------------------------------------
\* extract_zip, entry by entry
\* ------------------------------------------------------------------------
\* An entry name is the sequence of its path components: "/" is the root,
\* ".." the parent directory, anything else a normal component.  trailing
\* tells whether the name ends with '/'.
Tops == {"repo-main", "..", "/"}
Below == {"src", "a.txt", ".."}
EntryPaths ==
    {<<t>> : t \in Tops}
        \cup {<<t, a>> : t \in Tops, a \in Below}
        \cup {<<t, a, b>> : t \in Tops, a \in Below, b \in Below}

Entry(path, trailing) == [path |-> path, trailing |-> trailing]
ZipEntries == {Entry(p, t) : p \in EntryPaths, t \in BOOLEAN}
ZipArchives == UNION {[1..n -> ZipEntries] : n \in 0..MaxEntries}

\* ZipFile::enclosed_name: None (<<>>) for a name with a root or one whose
\* running depth falls below zero, Some(path) otherwise
RECURSIVE enclosed_from(_, _, _)
enclosed_from(path, i, depth) ==
    IF i > Len(path) THEN <<path>>
    ELSE IF path[i] = "/" THEN <<>>
    ELSE IF path[i] = ".."
         THEN IF depth = 0 THEN <<>> ELSE enclosed_from(path, i + 1, depth - 1)
    ELSE enclosed_from(path, i + 1, depth + 1)

enclosed_name(path) == enclosed_from(path, 1, 0)

\* mutant: no component is removed
strip_nothing(components) == components

\* components[1..]
strip_first(components) == Tail(components)

\* Path::parent of repo_path.join(rel), below repo_path
parent(rel) == SubSeq(rel, 1, Len(rel) - 1)

\* no extract_zip call under study
NoZip ==
    [pc |-> "idle", archive |-> <<>>, i |-> 0, made |-> {}, parents |-> {}]

\* ZipArchive::new succeeded on archive
zip_start(archive) == [NoZip EXCEPT !.pc = "loop", !.archive = archive]

Made(rel, kind) == [path |-> rel, kind |-> kind]

\* one iteration of `for i in 0..archive.len()`; io tells whether the
\* filesystem calls of the iteration succeed.  Paths are kept relative to
\* repo_path, as they are joined to it.
ZipEntry ==
    /\ zx.pc = "loop" /\ zx.i < Len(zx.archive)
    /\ \E io \in BOOLEAN :
         LET file == zx.archive[zx.i + 1]
             next == [zx EXCEPT !.i = @ + 1]
             rel == strip_first(file.path)
         IN  IF enclosed_name(file.path) = <<>> THEN zx' = next
             ELSE IF ~(Len(file.path) > 1) THEN zx' = next
             ELSE IF ~io THEN zx' = [next EXCEPT !.pc = "err"]
             ELSE IF file.trailing
             THEN zx' = [next EXCEPT !.made = @ \cup {Made(rel, "dir")}]
             ELSE zx' = [next EXCEPT
                            !.parents = @ \cup {parent(rel)},
                            !.made = @ \cup {Made(rel, "file")}]
    /\ UNCHANGED <<rq, dispVars, lst, flt, readers>>

\* Ok(()) after the last entry
ZipEnd ==
    /\ zx.pc = "loop" /\ zx.i = Len(zx.archive)
    /\ zx' = [zx EXCEPT !.pc = "ok"]
    /\ UNCHANGED <<rq, dispVars, lst, flt, readers>>

\* ------------------------------------------------------------------------
\* ProgressTracker::get_stats, guard by guard
\* ------------------------------------------------------------------------
\* mutant: the guards are taken in the opposite order
stats_lock_order_reversed == <<"total_size", "failed", "downloaded">>

\* Stats { downloaded: *..lock().await, failed: *..lock().await,
\*         total_size: *..lock().await }: the guards are temporaries of the
\* tail expression and live until get_stats returns
stats_lock_order == <<"downloaded", "failed", "total_size">>

\* a get_stats call that holds no guard yet
NoRead == [held |-> 0, stats |-> NoStats, returned |-> FALSE]

Readers == DOMAIN readers

\* the name under which reader r holds a mutex: task names are 1..Len(repos)
reader_id(r) == Len(repos) + r

counter(m) ==
    CASE m = "downloaded" -> downloaded
      [] m = "failed" -> failed
      [] m = "total_size" -> total_size

read_into(s, m) ==
    CASE m = "downloaded" -> [s EXCEPT !.downloaded = counter(m)]
      [] m = "failed" -> [s EXCEPT !.failed = counter(m)]
      [] m = "total_size" -> [s EXCEPT !.total_size = counter(m)]

\* the next guard of the struct expression is taken and its counter read
StatsLock(r) ==
    /\ ~readers[r].returned
    /\ readers[r].held + 1 < Len(stats_lock_order)
    /\ LET m == stats_lock_order[readers[r].held + 1] IN
       /\ locks[m] = 0
       /\ locks' = [locks EXCEPT ![m] = reader_id(r)]
       /\ readers' = [readers EXCEPT
                         ![r].held = @ + 1,
                         ![r].stats = read_into(@, m)]
    /\ UNCHANGED <<rq, repos, parallel_count, run, prev, lst, flt, zx, fs,
                   mainVars, taskVars, completed, downloaded, failed,
                   total_size>>

\* the last guard is taken and its counter read; get_stats returns, which
\* drops its guards
StatsReturn(r) ==
    /\ ~readers[r].returned
    /\ readers[r].held + 1 = Len(stats_lock_order)
    /\ LET m == stats_lock_order[readers[r].held + 1] IN
       /\ locks[m] = 0
       /\ locks' = unlock_all(locks, reader_id(r))
       /\ readers' = [readers EXCEPT
                         ![r].held = 0,
                         ![r].stats = read_into(@, m),
                         ![r].returned = TRUE]
    /\ UNCHANGED <<rq, repos, parallel_count, run, prev, lst, flt, zx, fs,
                   mainVars, taskVars, completed, downloaded, failed,
                   total_size>>

\* no listing, filter, extraction or concurrent get_stats under study
Idle == lst = NoListing /\ flt = NoFilter /\ zx = NoZip /\ readers = <<>>

\* ------------------------------------------------------------------------
\* Specifications
\* ------------------------------------------------------------------------
\* the records of the catalog at the positions in S, in catalog order
SubCatalog(S) ==
    LET RECURSIVE pick(_)
        pick(i) == IF i > Len(Catalog) THEN <<>>
                   ELSE (IF i \in S THEN <<Catalog[i]>> ELSE <<>>) \o pick(i + 1)
    IN  pick(1)

RepoLists ==
    {SubCatalog(S) : S \in {T \in SUBSET (1..Len(Catalog)) :
                                T # {} /\ Cardinality(T) <= MaxRepos}}

\* what may lie at a path before a run: a destination left by an earlier
\* run, nothing at a path that is only a temporary archive's
Filesystems(rs, entries) ==
    LET dest == {repo_path_of(rs[i]) : i \in DOMAIN rs} IN
    {f \in [PathsOf(rs) -> {Absent} \cup entries] :
        \A p \in PathsOf(rs) : p \notin dest => f[p] = Absent}

\* the state of the process when main has created the tracker and the
\* semaphore for the list rs
Started(rs, p) ==
    /\ repos = rs
    /\ parallel_count = p
    /\ permits = p
    /\ mainpc = "run" /\ spawned = 0 /\ joined = 0 /\ stats = NoStats
    /\ pc = [u \in DOMAIN rs |-> "unspawned"]
    /\ bi = [u \in DOMAIN rs |-> 0]
    /\ firstErr = [u \in DOMAIN rs |-> ""]
    /\ seen = [u \in DOMAIN rs |-> Absent]
    /\ tried = [u \in DOMAIN rs |-> <<>>]
    /\ gaveUp = [u \in DOMAIN rs |-> ""]
    /\ result = [u \in DOMAIN rs |-> NoResult]
    /\ completed = 0 /\ downloaded = 0 /\ failed = 0 /\ total_size = 0
    /\ locks = NoLocks

NoPrev == [seen |-> <<>>, result |-> <<>>]

Init ==
    /\ rq = retry_start
    /\ Idle
    /\ run = 1 /\ prev = NoPrev
    /\ \E rs \in RepoLists, p \in 0..MaxParallel :
         /\ Started(rs, p)
         /\ fs \in Filesystems(rs, {Dir(n, 0) : n \in Sizes})

Task(u, remote) ==
    \/ Acquire(u)
    \/ DownloadRepo(u)
    \/ Fetch(u, remote)
    \/ Extract(u, remote)
    \/ ReportCompleted(u)
    \/ ReportLockDownloaded(u)
    \/ ReportSuccess(u)
    \/ ReportFailure(u)

Next ==
    \/ Spawn
    \/ JoinOk
    \/ JoinErr
    \/ GetStats
    \/ \E u \in Units : Task(u, StatusRemote)

Spec == Init /\ [][Next]_vars

\* --- one retry_request call ---------------------------------------------
InitRetry ==
    /\ RetryInit
    /\ Idle
    /\ run = 1 /\ prev = NoPrev
    /\ Started(SubCatalog({1}), 1)
    /\ fs = [p \in PathsOf(SubCatalog({1})) |-> Absent]

NextRetry ==
    \/ RetryAttempt /\ UNCHANGED runVars
    \/ RetryExhausted /\ UNCHANGED runVars

SpecRetry == InitRetry /\ [][NextRetry]_vars

\* --- one repository, every remote behaviour, the program run again -------
\* The process ended (main returned or failed) and the program is started
\* again with the same arguments over the filesystem it left.
Rerun ==
    /\ mainpc \in {"done", "error"}
    /\ run < MaxRuns
    /\ run' = run + 1
    /\ prev' = [seen |-> seen, result |-> result]
    /\ permits' = parallel_count
    /\ mainpc' = "run" /\ spawned' = 0 /\ joined' = 0 /\ stats' = NoStats
    /\ pc' = [u \in Units |-> "unspawned"]
    /\ bi' = [u \in Units |-> 0]
    /\ firstErr' = [u \in Units |-> ""]
    /\ seen' = [u \in Units |-> Absent]
    /\ tried' = [u \in Units |-> <<>>]
    /\ gaveUp' = [u \in Units |-> ""]
    /\ result' = [u \in Units |-> NoResult]
    /\ completed' = 0 /\ downloaded' = 0 /\ failed' = 0 /\ total_size' = 0
    /\ locks' = NoLocks
    /\ UNCHANGED <<rq, repos, parallel_count, fs, partVars>>

\* one record with any default branch; at its destination nothing, a tree
\* of an earlier run, or a regular file
InitRepo ==
    /\ rq = retry_start
    /\ Idle
    /\ run = 1 /\ prev = NoPrev
    /\ \E b \in DefaultBranches :
         /\ Started(<<RepoInfo(Names[1], b)>>, 1)
         /\ fs \in Filesystems(repos, {File(0)} \cup {Dir(n, 0) : n \in Sizes})

NextRepo ==
    \/ Spawn
    \/ JoinOk
    \/ JoinErr
    \/ GetStats
    \/ \E u \in Units : Task(u, FullRemote)
    \/ Rerun

SpecRepo == InitRepo /\ [][NextRepo]_vars

\* --- the listing stage of main -------------------------------------------
\* main before fetch_all_repos has returned: nothing is dispatched yet
Unlisted(p) ==
    /\ repos = <<>>
    /\ parallel_count = p
    /\ permits = 0
    /\ mainpc = "listing" /\ spawned = 0 /\ joined = 0 /\ stats = NoStats
    /\ pc = <<>> /\ bi = <<>> /\ firstErr = <<>> /\ seen = <<>>
    /\ tried = <<>> /\ gaveUp = <<>> /\ result = <<>>
    /\ completed = 0 /\ downloaded = 0 /\ failed = 0 /\ total_size = 0
    /\ locks = NoLocks
    /\ fs = <<>>
    /\ run = 1 /\ prev = NoPrev
    /\ rq = retry_start

\* with or without --token, an account of any size, any --parallel
InitList ==
    /\ \E p \in 0..MaxParallel : Unlisted(p)
    /\ \E token \in BOOLEAN, n \in 0..Len(Catalog) : lst = fetch_start(token, n)
    /\ flt = NoFilter /\ zx = NoZip /\ readers = <<>>

NextList ==
    \/ FetchPage
    \/ CheckRateLimit
    \/ Listed
    \/ Spawn

SpecList == InitList /\ [][NextList]_vars

\* --- one filter_repos call -----------------------------------------------
InitFilter ==
    /\ Unlisted(1)
    /\ \E rs \in RecordLists, c \in Criteria, b \in Builds :
         flt = [repos |-> rs, criteria |-> c, build |-> b, out |-> NotCalled]
    /\ lst = NoListing /\ zx = NoZip /\ readers = <<>>

NextFilter == FilterRepos

SpecFilter == InitFilter /\ [][NextFilter]_vars

\* --- one extract_zip call ------------------------------------------------
InitZip ==
    /\ Unlisted(1)
    /\ \E archive \in ZipArchives : zx = zip_start(archive)
    /\ lst = NoListing /\ flt = NoFilter /\ readers = <<>>

NextZip ==
    \/ ZipEntry
    \/ ZipEnd

SpecZip == InitZip /\ [][NextZip]_vars

\* --- the tracker under concurrent callers --------------------------------
\* every task is about to call report_completion with some result, and
\* some get_stats calls are about to start
InitTracker ==
    /\ rq = retry_start
    /\ run = 1 /\ prev = NoPrev
    /\ lst = NoListing /\ flt = NoFilter /\ zx = NoZip
    /\ \E rs \in RepoLists, n \in 1..MaxReaders :
         /\ repos = rs
         /\ parallel_count = Len(rs)
         /\ permits = 0
         /\ mainpc = "run" /\ spawned = Len(rs) /\ joined = 0
         /\ stats = NoStats
         /\ pc = [u \in DOMAIN rs |-> "report"]
         /\ bi = [u \in DOMAIN rs |-> 0]
         /\ firstErr = [u \in DOMAIN rs |-> ""]
         /\ seen = [u \in DOMAIN rs |-> Absent]
         /\ tried = [u \in DOMAIN rs |-> <<>>]
         /\ gaveUp = [u \in DOMAIN rs |-> ""]
         /\ result \in [DOMAIN rs -> {Ok(s) : s \in Sizes} \cup {Err("write")}]
         /\ fs = [p \in PathsOf(rs) |-> Absent]
         /\ readers = [r \in 1..n |-> NoRead]
    /\ completed = 0 /\ downloaded = 0 /\ failed = 0 /\ total_size = 0
    /\ locks = NoLocks

Report(u) ==
    \/ ReportCompleted(u)
    \/ ReportLockDownloaded(u)
    \/ ReportSuccess(u)
    \/ ReportFailure(u)

ReadStats(r) ==
    \/ StatsLock(r)
    \/ StatsReturn(r)

NextTracker ==
    \/ \E u \in Units : Report(u)
    \/ \E r \in Readers : ReadStats(r)

SpecTracker == InitTracker /\ [][NextTracker]_vars

\* the runtime polls every task that can make a step, and a tokio Mutex
\* hands a released guard to a waiter
SpecTrackerFair ==
    /\ SpecTracker
    /\ \A u \in 1..MaxRepos : WF_vars(u \in Units /\ Report(u))
    /\ \A r \in 1..MaxReaders : WF_vars(r \in Readers /\ ReadStats(r))


\* ------------------------------------------------------------------------
\* Properties
\* ------------------------------------------------------------------------
\* tasks that hold a semaphore permit
Holding ==
    {u \in Units : pc[u] \in {"download", "fetch", "extract", "report",
                              "report_result", "report_size"}}

\* tasks whose download_repo has returned
Returned ==
    {u \in Units : pc[u] \in {"report", "report_result", "report_size", "done"}}

\* tasks inside report_completion, past its first increment
InReport == {u \in Units : pc[u] \in {"report_result", "report_size"}}

Succeeded == {u \in Units : result[u].kind = "ok"}

RECURSIVE SumSizes(_)
SumSizes(U) ==
    IF U = {} THEN 0
    ELSE LET u == CHOOSE x \in U : TRUE IN result[u].size + SumSizes(U \ {u})

\* C1: no download failure aborts the run: no task ends without reporting
\* and main never leaves with an error.
C1_FailuresNeverAbort ==
    /\ mainpc # "error"
    /\ \A u \in Units : pc[u] # "panicked"

\* C2: the stats main reads after joining every task count the successes,
\* the failures and the sum of the successes' sizes.
C2_FinalStats ==
    mainpc = "done" =>
        /\ stats.downloaded = Cardinality(Succeeded)
        /\ stats.failed = Len(repos) - Cardinality(Succeeded)
        /\ stats.total_size = SumSizes(Succeeded)

\* a finished run of two repositories, downloaded in parallel, one of which
\* succeeded with a size and one of which failed
C2_Witness ==
    /\ mainpc = "done" /\ Len(repos) = 2 /\ parallel_count = 2
    /\ Cardinality(Succeeded) = 1
    /\ stats.total_size > 0 /\ stats.failed = 1

\* C3: at most parallel_count tasks hold a permit, in every state.
C3_AtMostPHolders ==
    /\ Cardinality(Holding) <= parallel_count
    /\ permits = parallel_count - Cardinality(Holding)

\* more repositories than permits, every permit taken, a task waiting
C3_Witness ==
    /\ Len(repos) > parallel_count /\ parallel_count >= 1
    /\ Cardinality(Holding) = parallel_count
    /\ \E u \in Units : pc[u] = "acquire"

\* C4: at most one report is between its increments; completed is
\* downloaded + failed plus the report in progress, so the two are equal
\* whenever no report is in progress; completed never exceeds the tasks
\* dispatched.
C4_ReportIsCritical ==
    /\ Cardinality(InReport) <= 1
    /\ completed = downloaded + failed + Cardinality(InReport)
    /\ completed <= spawned
    /\ \A u \in InReport : locks.completed = u

\* a report in progress while another task waits to report
C4_Witness ==
    \E u, v \in Units : pc[u] = "report_size" /\ pc[v] = "report"

\* the transport errors a call has seen, in order
RECURSIVE ErrorsIn(_)
ErrorsIn(log) ==
    IF log = <<>> THEN <<>>
    ELSE LET rest == ErrorsIn(SubSeq(log, 1, Len(log) - 1))
             last == log[Len(log)]
         IN  IF last \in TransportErrors THEN Append(rest, last) ELSE rest

\* C5: retry_request makes at most 3 attempts and then returns a result:
\* a response, or, with the attempts used up, the last transport error.
C5_AlwaysReturns ==
    /\ Len(rq.log) <= MAX_RETRIES
    /\ rq.ret.kind \in {"running", "ok", "err"}
    /\ rq.ret.kind = "err" =>
          /\ Len(rq.log) = MAX_RETRIES
          /\ rq.ret.val = ErrorsIn(rq.log)[Len(ErrorsIn(rq.log))]

\* the statuses returned without a retry
Final == {"success", "not_found", "other"}

\* C6: a success, not-found or other non-retried status is returned at the
\* attempt where it arrives, with no wait after it; forbidden/rate-limited
\* twice and then a success is accepted after waits of 1000 and 2000 ms.
C6_ReturnsAndWaits ==
    /\ \A i \in 1..Len(rq.log) :
          rq.log[i] \in Final =>
             /\ i = Len(rq.log)
             /\ rq.ret = [kind |-> "ok", val |-> rq.log[i]]
             /\ Len(rq.waits) = i - 1
    /\ (rq.log # <<>> /\ rq.log[1] = "other") =>
          (Len(rq.log) = 1 /\ rq.waits = <<>>)
    /\ (/\ Len(rq.log) = 3
        /\ rq.log[1] \in {"forbidden", "too_many"}
        /\ rq.log[2] \in {"forbidden", "too_many"}
        /\ rq.log[3] = "success") =>
          (rq.ret = [kind |-> "ok", val |-> "success"]
              /\ rq.waits = <<1000, 2000>>)

\* rate-limited twice, then a success
C6_Witness ==
    /\ rq.log = <<"too_many", "too_many", "success">>
    /\ rq.ret.kind = "ok"

\* the order the claim gives for default branch d
ExpectedOrder(d) ==
    <<d>> \o SelectSeq(<<"main", "master", "develop", "trunk">>,
                       LAMBDA b : b # d)

\* C7: the branches requested are the default branch and then main, master,
\* develop, trunk without the default, each only after the one before
\* failed; a success ends the search; no branch is requested twice.
C7_BranchOrder ==
    \A u \in Units :
        LET t == tried[u]
            d == repos[u].default_branch
            e == ExpectedOrder(d)
        IN  /\ Len(t) <= Len(e)
            /\ \A i \in 1..Len(t) :
                  /\ t[i].branch = e[i]
                  /\ i < Len(t) => t[i].res = "failed"
            /\ \A i, j \in 1..Len(t) : i # j => t[i].branch # t[j].branch
            /\ Len(t) <= 5
            /\ d \in {"main", "master", "develop", "trunk"} => Len(t) <= 4
            /\ (t # <<>> /\ t[Len(t)].res = "ok") =>
                  (u \in Returned /\ result[u].kind = "ok")
            /\ (u \in Returned /\ result[u].kind = "err") =>
                  (Len(t) = Len(e) /\ t[Len(t)].res = "failed")

\* feature-x fails, main fails, master succeeds
C7_Witness ==
    \E u \in Units :
        /\ pc[u] = "done"
        /\ tried[u] = <<[branch |-> "feature-x", res |-> "failed"],
                        [branch |-> "main", res |-> "failed"],
                        [branch |-> "master", res |-> "ok"]>>

\* C8 as claimed: a failed download_repo carries the reason of the last
\* branch attempt.
C8_CarriesLastReason ==
    \A u \in Returned :
        result[u].kind = "err" => result[u].reason = gaveUp[u]

\* C8 as amended: a failed download_repo carries the reason of the first
\* branch attempt, the default branch's.
C8_CarriesFirstReason ==
    \A u \in Returned :
        result[u].kind = "err" =>
            /\ result[u].reason = firstErr[u]
            /\ \A i \in 1..Len(tried[u]) : tried[u][i].res = "failed"

\* every branch failed, the first and the last for different reasons
C8_Witness ==
    \E u \in Returned :
        /\ result[u].kind = "err"
        /\ Len(tried[u]) = 5
        /\ firstErr[u] = "connect" /\ gaveUp[u] = "HTTP not_found"

\* tasks whose download_repo has been entered
Called == {u \in Units : pc[u] \notin {"unspawned", "acquire", "download"}}

\* C9 as claimed: whenever the destination path exists when download_repo is
\* called, no request is made and the call succeeds with the tree's size.
C9_ExistingPathShortcuts ==
    \A u \in Called :
        seen[u].kind # "absent" =>
            /\ tried[u] = <<>>
            /\ result[u] = Ok(seen[u].size)

\* C9 as amended: whenever the destination is a directory get_dir_size can
\* read when download_repo is called, no request is made and the call
\* succeeds with the tree's size; so does the call of the next run, with
\* the same size.
C9_ExistingDirShortcuts ==
    \A u \in Called :
        /\ seen[u].kind = "dir" =>
              /\ tried[u] = <<>>
              /\ result[u] = Ok(seen[u].size)
              /\ fs[repo_path_of(repos[u])] = seen[u]
        /\ (run > 1 /\ prev.seen[u].kind = "dir") =>
              /\ tried[u] = <<>>
              /\ result[u] = prev.result[u]

\* the second run's call returned for a tree that was there before the first
C9_Witness ==
    \E u \in Units :
        /\ run = 2 /\ pc[u] = "done"
        /\ prev.seen[u].kind = "dir" /\ prev.result[u].size > 0

\* C10: what lies at a task's destination and at its temporary archive's
\* path was put there by that task or was there before the run, and so was
\* what the task found at its destination.
C10_DisjointPaths ==
    \A u \in Units :
        LET repo_path == repo_path_of(repos[u]) IN
        /\ fs[repo_path].by \in {0, u}
        /\ fs[zip_file_of(repo_path)].by \in {0, u}
        /\ seen[u].by \in {0, u}

\* a call whose attempts yielded log went through the retry policy: every
\* attempt that ended in a transport error or a forbidden/rate-limited
\* status was followed by another attempt, unless it was the third
Retried(log) ==
    \A i \in 1..Len(log) :
        log[i] \in {"connect", "timeout", "forbidden", "too_many"}
            => i = 3 \/ i < Len(log)

\* C11: every outbound HTTP call goes through the retry policy with up to 3
\* attempts: the listing page fetch and the quota check (like the archive
\* download) are retried on a transport error or a forbidden/rate-limited
\* status.
C11_EveryCallRetried ==
    lst.call.to \in {"list", "quota"} => Retried(lst.call.log)

\* size <= max_size_mb * 1024 over the integers, written with quotients so
\* that the product is never formed
SizeWithin(size, max_size_mb) ==
    \/ size \div 1024 < max_size_mb
    \/ size \div 1024 = max_size_mb /\ size % 1024 = 0

\* two language names that differ at most in the case of their letters
SameIgnoringCase(a, b) ==
    \/ a = b
    \/ \E class \in {{"Rust", "rust", "RUST"}, {"Go", "go", "GO"}} :
          a \in class /\ b \in class

\* the pattern occurs in the name
Found(pattern, name) ==
    \E i \in 1..Len(name), j \in 1..Len(name) : SubSeq(name, i, j) = pattern

\* the predicates a record has to pass under the criteria c
Passes(r, c) ==
    /\ c.only_original => ~r.is_fork
    /\ r.stars >= c.min_stars
    /\ c.max_size # <<>> => SizeWithin(r.size, c.max_size[1])
    /\ c.language # <<>> =>
          r.language # <<>> /\ SameIgnoringCase(r.language[1], c.language[1])
    /\ c.regex # <<>> => Found(c.regex[1], r.name)

PassingOf(rs, c) ==
    LET Test(r) == Passes(r, c) IN SelectSeq(rs, Test)

\* C12: for every record sequence and criteria, filter_repos returns the
\* subsequence, in the original order, of exactly the records that pass all
\* predicates; with no filters and minStars = 0 it returns every record.
C12_ReturnsThePassingRecords ==
    flt.out # NotCalled =>
        /\ flt.out.kind = "ok"
        /\ flt.out.repos = PassingOf(flt.repos, flt.criteria)
        /\ flt.criteria = NoCriteria => flt.out.repos = flt.repos

\* C13: when a maximum size is set (and nothing else is filtered on), a
\* record passes iff sizeKB <= maxSizeMB * 1024 as mathematical integers,
\* also for maxSizeMB >= 2^22 where the product exceeds 32 bits.
C13_SizePredicateIsExact ==
    (/\ flt.out # NotCalled
     /\ flt.criteria.max_size # <<>>
     /\ flt.criteria = [NoCriteria EXCEPT !.max_size = flt.criteria.max_size])
        => /\ flt.out.kind = "ok"
           /\ \A i \in DOMAIN flt.repos :
                 (\E j \in DOMAIN flt.out.repos :
                      flt.out.repos[j] = flt.repos[i])
                     <=> SizeWithin(flt.repos[i].size, flt.criteria.max_size[1])

\* the concatenation of the pages, in the order received
RECURSIVE Flatten(_)
Flatten(pages) ==
    IF pages = <<>> THEN <<>> ELSE Head(pages) \o Flatten(Tail(pages))

\* the page request just made ended in a failure: its last attempt was a
\* transport error or a status other than success, or its body could not be
\* decoded
PageFailed ==
    /\ lst.call.to = "list"
    /\ \/ lst.call.log[Len(lst.call.log)] # "success"
       \/ lst.call.body = "garbled"

\* the loop of fetch_all_repos has ended at an empty page
ListingEnded == lst.pc \in {"quota", "return", "ok"}

\* C14: fetch_all_repos requests pages 1, 2, 3, ... without skipping one,
\* stops at the first page with zero records and returns the concatenation
\* of the earlier pages in the order received; if a page request ends in a
\* transport failure after retries, a non-success status or an undecodable
\* body, the listing returns an error, no partial list is returned and no
\* download unit is dispatched.
C14_PagesInOrderOrError ==
    /\ lst.requested = [i \in 1..Len(lst.requested) |-> i]
    /\ ListingEnded =>
          /\ Len(lst.received) = Len(lst.requested)
          /\ \A i \in DOMAIN lst.received :
                lst.received[i] = <<>> <=> i = Len(lst.received)
          /\ lst.repos = Flatten(lst.received)
    /\ mainpc = "run" => repos = Flatten(lst.received)
    /\ PageFailed =>
          /\ lst.pc = "error" /\ mainpc = "error"
          /\ repos = <<>> /\ spawned = 0

ArchiveEntries == {zx.archive[i] : i \in DOMAIN zx.archive}

\* the paths, relative to the destination, that entries were written to
OutputPaths == {m.path : m \in zx.made}

\* the entry paths of at least two segments, their first segment removed
Stripped(entries) ==
    {Tail(e.path) : e \in {x \in entries : Len(x.path) >= 2}}

\* the number of segments of kind k among the first n of path
Count(path, n, k) == Cardinality({i \in 1..n : (path[i] = "..") = k})

\* the enclosed-name check: no root, and no prefix of the path with more
\* parent-directory segments than normal ones
Enclosed(path) ==
    /\ \A i \in DOMAIN path : path[i] # "/"
    /\ \A n \in DOMAIN path : Count(path, n, TRUE) <= Count(path, n, FALSE)

ExampleArchive ==
    <<Entry(<<"repo-main">>, TRUE), Entry(<<"repo-main", "src", "a.txt">>, FALSE)>>

\* the example archive yields one file, src/a.txt, and nothing named
\* repo-main
ExampleYield ==
    zx.archive = ExampleArchive =>
        /\ zx.made = {Made(<<"src", "a.txt">>, "file")}
        /\ \A p \in OutputPaths \cup zx.parents :
              \A i \in DOMAIN p : p[i] # "repo-main"

\* C15 as stated: the output paths of extract_zip are the entry paths of
\* length >= 2 with their first segment removed, whatever the entries.
C15_StripsEveryEntry ==
    zx.pc = "ok" =>
        /\ OutputPaths = Stripped(ArchiveEntries)
        /\ ExampleYield

\* C15: when extract_zip returns Ok, its output paths are the paths of the
\* entries accepted by the enclosed-name check that have at least two
\* segments, with their first segment removed; the example archive yields
\* exactly the file src/a.txt and nothing named repo-main.
C15_StripsEnclosedEntries ==
    zx.pc = "ok" =>
        /\ OutputPaths = Stripped({e \in ArchiveEntries : Enclosed(e.path)})
        /\ ExampleYield

\* an entry of two segments is rejected by enclosed_name and skipped, another
\* entry is written
C15_Witness ==
    /\ zx.pc = "ok"
    /\ zx.made # {}
    /\ \E e \in ArchiveEntries : Len(e.path) >= 2 /\ ~Enclosed(e.path)

\* the path, taken from the destination directory, never steps above it
Inside(rel) ==
    \A n \in DOMAIN rel : Count(rel, n, TRUE) <= Count(rel, n, FALSE)

\* C18: every file or directory that extract_zip creates lies inside the
\* destination directory: no path left after stripping the first segment of
\* an accepted entry resolves outside it.
C18_StaysInsideDestination ==
    \A p \in OutputPaths \cup zx.parents : Inside(p)

\* main waits for no task any more: it has returned, or a JoinError left it
DispatcherFinished == mainpc \in {"done", "error"}

\* C16: each dispatched unit acquires a slot, retrieves, reports and then
\* releases: the free slots are those no unit between acquire and the end
\* of its report holds (a failed retrieval releases too), and, with
\* maxParallel >= 1, once the dispatcher has finished waiting every
\* dispatched unit has acquired a slot and all maxParallel slots are free.
C16_SlotsHeldThenFreed ==
    /\ permits = parallel_count - Cardinality(Holding)
    /\ InReport \subseteq Holding
    /\ (parallel_count >= 1 /\ DispatcherFinished) =>
          /\ \A u \in 1..spawned : pc[u] # "acquire"
          /\ permits = parallel_count

\* every dispatched unit waits for a slot, none is free and no unit holds
\* one that it could give back
AllWaitForever ==
    /\ \A u \in Units : pc[u] = "acquire"
    /\ permits = 0
    /\ Holding = {}

\* C17: the limiter is never created with capacity 0: in a run that has
\* dispatched its units the limiter has capacity >= 1, and the units are
\* never all waiting for a slot that cannot become available.
C17_LimiterHasCapacity ==
    (mainpc = "run" /\ spawned = Len(repos)) =>
        /\ parallel_count >= 1
        /\ ~AllWaitForever

\* every report_completion call and every get_stats call has returned
AllReturned ==
    /\ \A u \in Units : pc[u] = "done"
    /\ \A r \in Readers : readers[r].returned

\* C19: the four separately locked counters cannot deadlock: under any
\* interleaving of concurrent report_completion calls with get_stats
\* calls, every call eventually acquires all its locks and returns.
C19_EveryCallReturns == <>AllReturned

\* a report_completion call holds the completed guard and waits for the
\* downloaded guard, which a get_stats call holds
C19_Witness ==
    \E u \in Units, r \in Readers :
        /\ pc[u] = "report_result" /\ result[u].kind = "ok"
        /\ locks.completed = u
        /\ locks.downloaded = Len(repos) + r

\* C20: in retry_request every backoff wait is followed by another attempt:
\* a single call waits at most twice (1000 ms, then 2000 ms) and never
\* after its third and final attempt, however that attempt ended.
C20_NoWaitAfterLastAttempt ==
    /\ Len(rq.waits) <= 2
    /\ \A i \in DOMAIN rq.waits : rq.waits[i] = 1000 * i
    /\ rq.ret.kind # "running" => Len(rq.waits) < Len(rq.log)

====
